---- MODULE Spec2Model ----
(***************************************************************************)
(* A model of goodseed's local read-only server (src/goodseed/server.py):  *)
(* the file system of run stores, the SQLite reads against one store, the  *)
(* route table of do_GET and the JSON response codec.                      *)
(*                                                                         *)
(* Strings are atoms.  A request path is the sequence of its segments (the *)
(* text between the slashes); a file is its directory (a sequence of       *)
(* names from the top of the file system), its stem and its suffix.        *)
(***************************************************************************)
EXTENDS Integers, Sequences, FiniteSets, TLC

VARIABLES
    fs,        \* the set of files that exist now
    db,        \* file -> what an SQLite read of it finds
    request,   \* the GET request being handled (or the last one handled)
    pc,        \* where the handler of `request` stands
    db_path,   \* do_GET's local db_path between _resolve_run_db and the read
    opened,    \* the files sqlite3.connect was called on for `request`
    response,  \* the response sent for `request`
    hist       \* history: the files there at the lookup and at the open

vars == <<fs, db, request, pc, db_path, opened, response, hist>>

None == "None"

\* ------------------------------------------------------------ bounds
MaxStep == 1
MaxCount == 2
MaxProject == 2
MaxFiles == 2
MaxDepth == 2
MaxLen == 2
MaxStamp == 2

\* ------------------------------------------------------- sequences
\* The subsets of S of at most n elements.
RECURSIVE SubsetsUpTo(_, _)
SubsetsUpTo(S, n) ==
    IF n = 0 THEN {{}}
    ELSE LET smaller == SubsetsUpTo(S, n - 1)
         IN  smaller \cup {T \cup {x} : T \in smaller, x \in S}

RECURSIVE SeqsUpTo(_, _)
SeqsUpTo(S, n) ==
    IF n = 0 THEN {<<>>}
    ELSE LET shorter == SeqsUpTo(S, n - 1)
         IN  shorter \cup {Append(s, x) : s \in {t \in shorter : Len(t) = n - 1}, x \in S}

IsPrefix(p, s) == Len(p) <= Len(s) /\ SubSeq(s, 1, Len(p)) = p

RECURSIVE Flatten(_)
Flatten(ss) == IF ss = <<>> THEN <<>> ELSE Head(ss) \o Flatten(Tail(ss))

\* --------------------------------------------------------- exceptions
\* The outcome of a call: a value, or a raised exception of a class.
Ok(v) == [exc |-> "none", msg |-> "", val |-> v]
Raise(cls, m) == [exc |-> cls, msg |-> m, val |-> <<>>]

\* sqlite3.OperationalError <: sqlite3.DatabaseError <: sqlite3.Error <: Exception
IsOperationalError(r) == r.exc = "OperationalError"
IsException(r) == r.exc \in {"OperationalError", "DatabaseError", "ValueError"}

\* -------------------------------------------------------- file system
\* run_server: _RequestHandler.projects_dir, fixed at startup.
ProjectsDir == <<"data">>

File(dir, stem, suffix) == [dir |-> dir, stem |-> stem, suffix |-> suffix]

\* A pathlib path as the handler holds it: unresolved, ".." kept.
Path(parts, stem, suffix) == [parts |-> parts, stem |-> stem, suffix |-> suffix]

Prefixes(s) == {SubSeq(s, 1, n) : n \in 0..Len(s)}

\* The directories that exist: the root, and every ancestor of a file.
Dirs(files) == Prefixes(ProjectsDir) \cup UNION {Prefixes(f.dir) : f \in files}

UnderRoot(f) == IsPrefix(ProjectsDir, f.dir)

\* pathlib: a / b.  An absolute right operand replaces the left one; empty
\* and "." parts are dropped, ".." is kept.
PathJoin(base, segs) ==
    LET clean == SelectSeq(segs, LAMBDA s : s \notin {"", "."})
    IN  IF segs # <<>> /\ Head(segs) = "" /\ Len(segs) > 1 THEN clean ELSE base \o clean

\* The operating system's walk of a path's directory parts from `cur`: each
\* part must lead to an existing directory, ".." leads to the parent.
RECURSIVE Walk(_, _, _)
Walk(cur, parts, dirs) ==
    IF parts = <<>> THEN [ok |-> TRUE, dir |-> cur]
    ELSE LET c == Head(parts)
             nxt == IF c = ".."
                    THEN (IF cur = <<>> THEN <<>> ELSE SubSeq(cur, 1, Len(cur) - 1))
                    ELSE Append(cur, c)
         IN  IF nxt \in dirs THEN Walk(nxt, Tail(parts), dirs)
             ELSE [ok |-> FALSE, dir |-> <<>>]

\* The file a path names, as the operating system resolves it.
RealFile(p, files) ==
    LET w == Walk(<<>>, p.parts, Dirs(files))
    IN  File(w.dir, p.stem, p.suffix)

\* Path.exists()
Exists(p, files) ==
    Walk(<<>>, p.parts, Dirs(files)).ok /\ RealFile(p, files) \in files

\* Path of an existing file (what glob yields).
PathOf(f) == Path(f.dir, f.stem, f.suffix)

\* _resolve_run_db: projects_dir / project / "runs" / f"{run_name}.sqlite",
\* or None when that path does not exist.
ResolvePath(project, run_name) ==
    Path(Append(PathJoin(ProjectsDir, project), "runs"), run_name, ".sqlite")

\* Python's None where a path is expected.
NoPath == Path(<<>>, "", "")

\* The join alone, without the test that the file exists.
ResolveUnchecked(files, project, run_name) == ResolvePath(project, run_name)

_resolve_run_db(files, project, run_name) ==
    IF Exists(ResolvePath(project, run_name), files)
    THEN ResolvePath(project, run_name)
    ELSE NoPath

\* Path.glob("**/runs/*.sqlite") under projects_dir.
Glob(files) ==
    {f \in files : /\ UnderRoot(f)
                   /\ Len(f.dir) > Len(ProjectsDir)
                   /\ f.dir[Len(f.dir)] = "runs"
                   /\ f.suffix = ".sqlite"}

\* The name of the directory above runs/ alone.
ParentName(f) == SubSeq(f.dir, Len(f.dir) - 1, Len(f.dir) - 1)

\* db_path.parent.parent.relative_to(projects_dir), the project's name.
ProjectName(f) == SubSeq(f.dir, Len(ProjectsDir) + 1, Len(f.dir) - 1)

\* Code point order of the names files and directories carry.
StrRank(s) ==
    CASE s = "" -> 0
      [] s = ".sqlite" -> 1
      [] s = ".txt" -> 2
      [] s = "data" -> 3
      [] s = "other" -> 4
      [] s = "p" -> 5
      [] s = "r1" -> 6
      [] s = "r2" -> 7
      [] s = "runs" -> 8

\* A path's parts as ranks: directory names, then the stem and the suffix.
PathKey(f) ==
    [i \in 1..(Len(f.dir) + 2) |->
        IF i <= Len(f.dir) THEN StrRank(f.dir[i])
        ELSE IF i = Len(f.dir) + 1 THEN StrRank(f.stem) ELSE StrRank(f.suffix)]

RECURSIVE LexLess(_, _)
LexLess(a, b) ==
    IF b = <<>> THEN FALSE
    ELSE IF a = <<>> THEN TRUE
    ELSE IF Head(a) # Head(b) THEN Head(a) < Head(b)
    ELSE LexLess(Tail(a), Tail(b))

\* sorted(paths): ascending by parts.
RECURSIVE SortedPaths(_)
SortedPaths(files) ==
    IF files = {} THEN <<>>
    ELSE LET least == CHOOSE f \in files :
                        \A g \in files \ {f} : LexLess(PathKey(f), PathKey(g))
         IN  <<least>> \o SortedPaths(files \ {least})

\* ------------------------------------------------------------- SQLite
\* What a store file holds decides what each statement against it does:
\*   ok         every table is there
\*   no_ss      the string_series / string_points tables are absent
\*   empty      no table at all (a file that is not yet a run store)
\*   malformed  string_points lacks a column the row query names
\*   locked     a writer holds the lock longer than busy_timeout
\*   corrupt    the file is not a database
\*   unopenable the file exists and connect() fails on it
Kinds == {"ok", "no_ss", "empty", "malformed", "locked", "corrupt", "unopenable"}

\* _open_readonly: connect(file:<path>?mode=ro), never creating the file.
_open_readonly(p, files, store) ==
    IF ~Exists(p, files) \/ store[RealFile(p, files)].kind = "unopenable"
    THEN Raise("OperationalError", "unable to open database file")
    ELSE Ok(RealFile(p, files))

\* conn.execute(<a statement reading `table`>): the failure, if any.
Execute(s, table) ==
    CASE s.kind = "corrupt" -> Raise("DatabaseError", "file is not a database")
      [] s.kind = "locked" -> Raise("OperationalError", "database is locked")
      [] s.kind = "empty" -> Raise("OperationalError", "no such table")
      [] s.kind = "no_ss" /\ table \in {"string_count", "string_rows", "string_paths"} ->
            Raise("OperationalError", "no such table")
      [] s.kind = "malformed" /\ table = "string_rows" ->
            Raise("OperationalError", "no such column")
      [] OTHER -> Ok(TRUE)

\* An optional integer argument: <<>> is Python's None, <<n>> the integer n.
NoInt == <<>>
Int1(n) == <<n>>

\* The names of the string series, with their rank in SQLite's BINARY
\* collation (ORDER BY s.path).
SeriesPaths == {"err", "out"}
MetricPaths == {"loss"}
SeriesRank(path) == CASE path = "err" -> 1 [] path = "loss" -> 2 [] path = "out" -> 3

\* A row of string_points joined with string_series: [path, step].  The
\* value and ts columns are carried to the response unchanged; (path, step)
\* is the key of a point.
Row(path, step) == [path |-> path, step |-> step]

\* The ORDER BY clauses of the queries, by their SQL text.  In
\* "s.path, p.step DESC" the DESC binds to p.step alone.
Less(order, a, b) ==
    CASE order = "s.path, p.step" ->
            \/ SeriesRank(a.path) < SeriesRank(b.path)
            \/ a.path = b.path /\ a.step < b.step
      [] order = "s.path, p.step DESC" ->
            \/ SeriesRank(a.path) < SeriesRank(b.path)
            \/ a.path = b.path /\ a.step > b.step
      [] order = "p.step" -> a.step < b.step
      [] order = "p.step DESC" -> a.step > b.step

\* ORDER BY: the rows as a sequence, least first.
RECURSIVE OrderBy(_, _)
OrderBy(rows, order) ==
    IF rows = {} THEN <<>>
    ELSE LET first == CHOOSE r \in rows : \A q \in rows \ {r} : Less(order, r, q)
         IN  <<first>> \o OrderBy(rows \ {first}, order)

Range(seq) == {seq[i] : i \in DOMAIN seq}

\* LIMIT n OFFSET o: a negative limit is no limit, a negative offset is 0.
LimitOffset(seq, n, o) ==
    LET off == IF o < 0 THEN 0 ELSE o
        last == IF n < 0 \/ off + n > Len(seq) THEN Len(seq) ELSE off + n
    IN  SubSeq(seq, off + 1, last)

\* WHERE s.path = ?, present when series_path is truthy.
HasWhere(series_path) == series_path \notin {None, ""}

Scope(s, series_path) ==
    IF HasWhere(series_path) THEN {r \in s.points : r.path = series_path} ELSE s.points

\* The rows of the tail branch: the inner SELECT ... ORDER BY <order_col> DESC
\* LIMIT ?, re-ordered ascending by the outer ORDER BY.
TailRows(s, series_path, tail) ==
    LET order_col == IF HasWhere(series_path) THEN "p.step" ELSE "s.path, p.step"
        inner == IF HasWhere(series_path)
                 THEN OrderBy(Scope(s, series_path), "p.step DESC")
                 ELSE OrderBy(Scope(s, series_path), "s.path, p.step DESC")
        sub == Range(LimitOffset(inner, tail, 0))
    IN  OrderBy(sub, order_col)

\* The rows of the paging branch: ORDER BY <order_col> [LIMIT ? OFFSET ?].
PageRows(s, series_path, limit, offset) ==
    LET order_col == IF HasWhere(series_path) THEN "p.step" ELSE "s.path, p.step"
        all == OrderBy(Scope(s, series_path), order_col)
    IN  IF limit # NoInt THEN LimitOffset(all, limit[1], offset) ELSE all

\* One element of "points": {"path": ..., "step": ...}.
StringPoint(r) ==
    [t |-> "dict", v |-> [path |-> [t |-> "str", v |-> r.path],
                          step |-> [t |-> "int", v |-> r.step]]]

PointList(rows) == [i \in DOMAIN rows |-> StringPoint(rows[i])]

\* What the except clause of _get_string_series does with a failed statement.
StringSeriesExcept(r) ==
    IF IsOperationalError(r) THEN Ok([points |-> <<>>, total |-> 0]) ELSE r

\* _get_string_series(db_path, series_path, limit, offset, tail)
_get_string_series(p, files, store, series_path, limit, offset, tail) ==
    LET conn == _open_readonly(p, files, store)
        s == store[conn.val]
        count == Execute(s, "string_count")
        rows == Execute(s, "string_rows")
    IN  IF IsException(conn) THEN conn
        ELSE IF IsException(count) THEN StringSeriesExcept(count)
        ELSE IF IsException(rows) THEN StringSeriesExcept(rows)
        ELSE Ok([points |-> IF tail # NoInt
                            THEN PointList(TailRows(s, series_path, tail[1]))
                            ELSE PointList(PageRows(s, series_path, limit, offset)),
                 total |-> Cardinality(Scope(s, series_path))])

\* _read_meta: the run_meta rows as a mapping.
_read_meta(s) ==
    LET r == Execute(s, "run_meta")
    IN  IF IsException(r) THEN r ELSE Ok(s.meta)

\* meta.get(key, default)
Get(meta, key, default) == IF key \in DOMAIN meta THEN meta[key] ELSE default

\* _get_metrics(db_path, metric_path): the metric points, ordered.  A value
\* of a result tree is [t |-> its type, v |-> its content]; logged_at, a text
\* made from the ts column, is left out.
MetricPoint(r) ==
    [t |-> "dict",
     v |-> [path |-> [t |-> "str", v |-> r.path],
            step |-> [t |-> "int", v |-> r.step],
            value |-> [t |-> "float", v |-> r.y],
            is_preview |-> [t |-> "bool", v |-> "False"],
            preview_completion |-> [t |-> "null", v |-> "None"]]]

_get_metrics(p, files, store, metric_path) ==
    LET conn == _open_readonly(p, files, store)
        s == store[conn.val]
        r == Execute(s, "metric_points")
        scope == IF metric_path \notin {None, ""}
                 THEN {m \in s.metrics : m.path = metric_path} ELSE s.metrics
        rows == IF metric_path \notin {None, ""}
                THEN OrderBy(scope, "p.step") ELSE OrderBy(scope, "s.path, p.step")
    IN  IF IsException(conn) THEN conn
        ELSE IF IsException(r) THEN r
        ELSE Ok([i \in DOMAIN rows |-> MetricPoint(rows[i])])

\* _get_metric_paths(db_path): the distinct paths that have a point, sorted.
_get_metric_paths(p, files, store) ==
    LET conn == _open_readonly(p, files, store)
        s == store[conn.val]
        r == Execute(s, "metric_points")
        rows == OrderBy({Row(m.path, 0) : m \in s.metrics}, "s.path, p.step")
    IN  IF IsException(conn) THEN conn
        ELSE IF IsException(r) THEN r
        ELSE Ok([i \in DOMAIN rows |-> rows[i].path])

\* _get_configs(db_path): path -> deserialized value.
_get_configs(p, files, store) ==
    LET conn == _open_readonly(p, files, store)
        s == store[conn.val]
        r == Execute(s, "configs")
    IN  IF IsException(conn) THEN conn
        ELSE IF IsException(r) THEN r
        ELSE Ok(s.configs)

\* ------------------------------------------------------ response codec
\* Result trees: [t |-> "float" | "int" | "str" | "bool" | "null", v |-> content],
\* [t |-> "list", v |-> a sequence of trees], [t |-> "dict", v |-> key -> tree].
\* A float's content is "nan", "inf", "-inf" or the numeral of a finite float.
Str(x) == [t |-> "str", v |-> x]
PyNone == [t |-> "null", v |-> "None"]
List(seq) == [t |-> "list", v |-> seq]
Dict(f) == [t |-> "dict", v |-> f]

isnan(obj) == obj.v = "nan"
isinf(obj) == obj.v \in {"inf", "-inf"}
Positive(obj) == obj.v \in {"inf", "1.5"}

\* A sanitizer that descends into mappings and not into sequences.
RECURSIVE SanitizeMappings(_)
SanitizeMappings(obj) ==
    IF obj.t = "float"
    THEN IF isnan(obj) THEN Str("NaN")
         ELSE IF isinf(obj) THEN (IF Positive(obj) THEN Str("Infinity") ELSE Str("-Infinity"))
         ELSE obj
    ELSE IF obj.t = "dict"
    THEN Dict([k \in DOMAIN obj.v |-> SanitizeMappings(obj.v[k])])
    ELSE obj

RECURSIVE _sanitize_for_json(_)
_sanitize_for_json(obj) ==
    IF obj.t = "float"
    THEN IF isnan(obj) THEN Str("NaN")
         ELSE IF isinf(obj) THEN (IF Positive(obj) THEN Str("Infinity") ELSE Str("-Infinity"))
         ELSE obj
    ELSE IF obj.t = "dict"
    THEN Dict([k \in DOMAIN obj.v |-> _sanitize_for_json(obj.v[k])])
    ELSE IF obj.t = "list"
    THEN List([i \in DOMAIN obj.v |-> _sanitize_for_json(obj.v[i])])
    ELSE obj

\* _send_json: 200 with the sanitized tree; _send_error: the error envelope.
_send_json(data) == [code |-> 200, body |-> _sanitize_for_json(data)]
_send_error(code, message) == [code |-> code, body |-> Dict([error |-> Str(message)])]

\* --------------------------------------------------------------- scans
\* run_meta texts that are compared (created_at) are modelled by their rank
\* in string order: EmptyText is "", 1, 2, ... are timestamps, later ones
\* greater.  NoText is Python's None (an absent key, or a NULL value).
NoText == -1
EmptyText == 0

Text(c) == IF c = NoText THEN PyNone ELSE Str(c)

\* str(db_path.parent.parent.relative_to(projects_dir)); the root itself is ".".
project_name(f) == IF ProjectName(f) = <<>> THEN <<".">> ELSE ProjectName(f)

\* The body of _scan_runs's loop for one file: the run's entry, or the
\* exception the outer try catches.
ScanOne(f, files, store) ==
    LET conn == _open_readonly(PathOf(f), files, store)
        s == store[f]
        meta == _read_meta(s)
        ss == Execute(s, "string_paths")
        ss_rows == OrderBy({Row(r.path, 0) : r \in s.points}, "s.path, p.step")
        string_series_paths ==
            IF IsException(ss) THEN <<>> ELSE [i \in DOMAIN ss_rows |-> Str(ss_rows[i].path)]
    IN  IF IsException(conn) THEN conn
        ELSE IF IsException(meta) THEN meta
        ELSE IF IsException(ss) /\ ~IsOperationalError(ss) THEN ss
        ELSE Ok(Dict([project |-> Str(project_name(f)),
                      run_id |-> Str(Get(meta.val, "run_name", f.stem)),
                      created_at |-> Text(Get(meta.val, "created_at", NoText)),
                      status |-> Str(Get(meta.val, "status", "unknown")),
                      string_series_paths |-> List(string_series_paths)]))

\* r.get("created_at") or ""
CreatedKey(run) == IF run.v.created_at.t = "null" THEN EmptyText ELSE run.v.created_at.v

\* p["last_modified"] or "": a listed project always has a last_modified.
ModifiedKey(project) == project.v.last_modified.v

\* The sort key named by the field it reads.
SortKey(field, e) == IF field = "created_at" THEN CreatedKey(e) ELSE ModifiedKey(e)

\* list.sort(key=..., reverse=True): stable, greatest key first.
InsertDesc(sorted, x, field) ==
    LET n == Cardinality({i \in DOMAIN sorted : SortKey(field, sorted[i]) >= SortKey(field, x)})
    IN  SubSeq(sorted, 1, n) \o <<x>> \o SubSeq(sorted, n + 1, Len(sorted))

\* The runs as the loop appended them.
Unsorted(runs) == runs

RECURSIVE SortRunsDesc(_)
SortRunsDesc(runs) ==
    IF runs = <<>> THEN <<>>
    ELSE InsertDesc(SortRunsDesc(SubSeq(runs, 1, Len(runs) - 1)), runs[Len(runs)], "created_at")

\* A loop that stops at the first file that raises.
RECURSIVE ScanLoopAbort(_, _, _)
ScanLoopAbort(paths, files, store) ==
    IF paths = <<>> THEN <<>>
    ELSE LET r == ScanOne(Head(paths), files, store)
         IN  IF IsException(r) THEN <<>>
             ELSE <<r.val>> \o ScanLoopAbort(Tail(paths), files, store)

\* The loop of _scan_runs over the sorted paths: a file that raises is
\* logged and skipped.
RECURSIVE ScanLoop(_, _, _)
ScanLoop(paths, files, store) ==
    IF paths = <<>> THEN <<>>
    ELSE LET r == ScanOne(Head(paths), files, store)
             rest == ScanLoop(Tail(paths), files, store)
         IN  IF IsException(r) THEN rest ELSE <<r.val>> \o rest

_scan_runs(files, store) ==
    Ok(SortRunsDesc(ScanLoop(SortedPaths(Glob(files)), files, store)))

\* _scan_projects: grouped by project name from the paths and mtimes alone.
ProjectNames(files) == {project_name(f) : f \in Glob(files)}

ProjectEntry(name, files, store) ==
    LET mine == {f \in Glob(files) : project_name(f) = name}
        newest == CHOOSE f \in mine : \A g \in mine : store[g].mtime <= store[f].mtime
    IN  Dict([name |-> Str(name),
              run_count |-> [t |-> "int", v |-> Cardinality(mine)],
              last_modified |-> Str(store[newest].mtime)])

\* The projects in the order their first file comes in the sorted paths.
RECURSIVE FirstSeen(_, _)
FirstSeen(paths, seen) ==
    IF paths = <<>> THEN <<>>
    ELSE IF project_name(Head(paths)) \in seen THEN FirstSeen(Tail(paths), seen)
    ELSE <<project_name(Head(paths))>>
            \o FirstSeen(Tail(paths), seen \cup {project_name(Head(paths))})

RECURSIVE SortProjectsDesc(_)
SortProjectsDesc(ps) ==
    IF ps = <<>> THEN <<>>
    ELSE InsertDesc(SortProjectsDesc(SubSeq(ps, 1, Len(ps) - 1)), ps[Len(ps)], "last_modified")

_scan_projects(files, store) ==
    LET names == FirstSeen(SortedPaths(Glob(files)), {})
    IN  SortProjectsDesc([i \in DOMAIN names |-> ProjectEntry(names[i], files, store)])

\* -------------------------------------------------------------- router
\* A request is [segs, query]: the segments of the raw request path and the
\* query string's parameters.  A parameter read with int() is absent (or
\* blank: parse_qs drops blank values), a decimal numeral, or other text.
QAbsent == [given |-> "no"]
QJunk == [given |-> "text"]
QInt(n) == [given |-> "numeral", n |-> n]

\* unquote() of one raw segment: the segments of its decoded text.
Unquote(seg) ==
    CASE seg = "%2E%2E" -> <<"..">>
      [] seg = "..%2Fother" -> <<"..", "other">>
      [] seg = "a%0Ab" -> <<"a\nb">>
      [] seg = "metrics%0A" -> <<"metrics\n">>
      [] OTHER -> <<seg>>

\* path = unquote(parsed.path), as segments.
DecodePath(segs) == Flatten([i \in DOMAIN segs |-> Unquote(segs[i])])

\* The decoded segments that hold a line feed, which "." does not match.
LFSegs == {"a\nb", "metrics\n"}

\* "word$": "$" also matches before a line feed that ends the path.
AtEnd(seg, word) == seg = word \/ (seg = "metrics\n" /\ word = "metrics")

\* ^/api/projects$ and ^/api/runs$
MatchFixed(word, segs) == Len(segs) = 2 /\ segs[1] = "api" /\ AtEnd(segs[2], word)

\* ^/api/runs/(.+)/([^/]+)/<op>$: group 1 is every segment up to the last
\* slash before the run segment, joined; it must hold a character and no
\* line feed.  Group 2 is one segment that holds a character.
MatchRun(op, segs) ==
    LET n == Len(segs)
        group1 == SubSeq(segs, 3, n - 2)
    IN  /\ n >= 5
        /\ segs[1] = "api"
        /\ segs[2] = "runs"
        /\ AtEnd(segs[n], op)
        /\ segs[n - 1] # ""
        /\ group1 # <<"">>
        /\ \A i \in DOMAIN group1 : group1[i] \notin LFSegs

\* The route table of do_GET, in the order it is tested.
Routes == <<"projects", "runs", "configs", "metrics", "metric-paths", "string_series">>

Matches(i, segs) ==
    IF i <= 2 THEN MatchFixed(Routes[i], segs) ELSE MatchRun(Routes[i], segs)

\* The first route that matches, with its captured groups, or "none".
Route(segs) ==
    IF \E i \in DOMAIN Routes : Matches(i, segs)
    THEN LET i == CHOOSE j \in DOMAIN Routes :
                    Matches(j, segs) /\ \A k \in 1..(j - 1) : ~Matches(k, segs)
         IN  [op |-> Routes[i],
              project |-> IF i <= 2 THEN <<>> ELSE SubSeq(segs, 3, Len(segs) - 2),
              run |-> IF i <= 2 THEN "" ELSE segs[Len(segs) - 1]]
    ELSE [op |-> "none", project |-> <<>>, run |-> ""]

\* Messages of error responses: the text, and the names put into it.
NotFoundRun(project, run_name) ==
    [text |-> "Run not found: ", project |-> project, run |-> run_name]
Message(text) == [text |-> text, project |-> <<>>, run |-> ""]

NoResponse == [code |-> 0, body |-> PyNone]
NoRequest == [segs |-> <<>>, query |-> <<>>]

\* hist before a request is received: nothing looked up, nothing opened.
NoHist == [lookup |-> {}, open |-> {}]

\* except Exception as e: self._send_error(500, str(e))
Respond(r, key) ==
    IF IsException(r) THEN _send_error(500, Message(r.msg))
    ELSE _send_json(Dict((key :> r.val)))

\* int(text) if text else default
ParseInt(q, default) ==
    IF q.given = "no" THEN Ok(default)
    ELSE IF q.given = "text" THEN Raise("ValueError", "invalid literal for int()")
    ELSE Ok(Int1(q.n))

\* runs = [r for r in runs if r["project"] == project_filter]
FilterRuns(runs, project_filter) ==
    IF project_filter # <<>>
    THEN SelectSeq(runs, LAMBDA r : r.v.project.v = project_filter)
    ELSE runs

\* The files a scan connects to.
Connected(files, store) ==
    {f \in Glob(files) : ~IsException(_open_readonly(PathOf(f), files, store))}

\* do_GET up to the point where a run-scoped route has resolved its store:
\* the unscoped routes and every 404 are answered here.
Receive(req) ==
    /\ pc = "idle"
    /\ request' = req
    /\ LET route == Route(DecodePath(req.segs))
           found == _resolve_run_db(fs, route.project, route.run)
       IN  CASE route.op = "projects" ->
                    /\ response' = _send_json(Dict([projects |-> List(_scan_projects(fs, db))]))
                    /\ opened' = {}
                    /\ pc' = "done"
                    /\ UNCHANGED db_path
             [] route.op = "runs" ->
                    /\ response' =
                          LET runs == _scan_runs(fs, db)
                          IN  IF IsException(runs) THEN _send_error(500, Message(runs.msg))
                              ELSE _send_json(Dict([runs |->
                                      List(FilterRuns(runs.val, req.query.project))]))
                    /\ opened' = Connected(fs, db)
                    /\ pc' = "done"
                    /\ UNCHANGED db_path
             [] route.op = "none" ->
                    /\ response' = _send_error(404, Message("Not found"))
                    /\ opened' = {}
                    /\ pc' = "done"
                    /\ UNCHANGED db_path
             [] OTHER ->
                    IF found = NoPath
                    THEN /\ response' = _send_error(404, NotFoundRun(route.project, route.run))
                         /\ opened' = {}
                         /\ pc' = "done"
                         /\ UNCHANGED db_path
                    ELSE /\ response' = NoResponse
                         /\ opened' = {}
                         /\ pc' = "resolved"
                         /\ db_path' = found
    /\ hist' = [lookup |-> fs, open |-> fs]
    /\ UNCHANGED <<fs, db>>

\* The string_series branch of do_GET after the store is resolved.
StringSeriesResponse(req, p, files, store) ==
    LET limit == ParseInt(req.query.limit, NoInt)
        offset == ParseInt(req.query.offset, Int1(0))
        tail == ParseInt(req.query.tail, NoInt)
        result == _get_string_series(p, files, store, req.query.path,
                                     limit.val, offset.val[1], tail.val)
    IN  IF IsException(limit) THEN _send_error(500, Message(limit.msg))
        ELSE IF IsException(offset) THEN _send_error(500, Message(offset.msg))
        ELSE IF IsException(tail) THEN _send_error(500, Message(tail.msg))
        ELSE IF IsException(result) THEN _send_error(500, Message(result.msg))
        ELSE _send_json(Dict([string_series |-> List(result.val.points),
                              total |-> [t |-> "int", v |-> result.val.total]]))

\* Whether the branch gets as far as connecting to the store.
Connects(req, op) ==
    \/ op # "string_series"
    \/ \A q \in {req.query.limit, req.query.offset, req.query.tail} : q.given # "text"

\* do_GET from the resolved store to the response: the store is opened and
\* read as the file system is now.
Serve ==
    /\ pc = "resolved"
    /\ LET op == Route(DecodePath(request.segs)).op
       IN  /\ response' =
                CASE op = "configs" ->
                        LET r == _get_configs(db_path, fs, db)
                        IN  Respond(IF IsException(r) THEN r ELSE Ok(Dict(r.val)), "configs")
                  [] op = "metrics" ->
                        LET r == _get_metrics(db_path, fs, db, request.query.path)
                        IN  Respond(IF IsException(r) THEN r ELSE Ok(List(r.val)), "metrics")
                  [] op = "metric-paths" ->
                        LET r == _get_metric_paths(db_path, fs, db)
                        IN  Respond(IF IsException(r) THEN r
                                    ELSE Ok(List([i \in DOMAIN r.val |-> Str(r.val[i])])),
                                    "paths")
                  [] op = "string_series" -> StringSeriesResponse(request, db_path, fs, db)
           /\ opened' =
                IF Connects(request, op) /\ ~IsException(_open_readonly(db_path, fs, db))
                THEN {RealFile(db_path, fs)} ELSE {}
    /\ pc' = "done"
    /\ hist' = [hist EXCEPT !.open = fs]
    /\ UNCHANGED <<fs, db, request, db_path>>

\* The handler returns; the server waits for the next request.
Finish ==
    /\ pc = "done"
    /\ request' = NoRequest
    /\ pc' = "idle"
    /\ db_path' = NoPath
    /\ opened' = {}
    /\ response' = NoResponse
    /\ hist' = NoHist
    /\ UNCHANGED <<fs, db>>

\* An external process removes a run store.
RemoveFile(f) ==
    /\ f \in fs
    /\ fs' = fs \ {f}
    /\ UNCHANGED <<db, request, pc, db_path, opened, response, hist>>

\* ------------------------------------------------------ specifications
Store(kind, meta, points, metrics, configs, mtime) ==
    [kind |-> kind, meta |-> meta, points |-> points, metrics |-> metrics,
     configs |-> configs, mtime |-> mtime]

Query(path, limit, offset, tail, project) ==
    [path |-> path, limit |-> limit, offset |-> offset, tail |-> tail, project |-> project]

NoQuery == Query(None, QAbsent, QAbsent, QAbsent, <<>>)

Idle ==
    /\ request = NoRequest
    /\ pc = "idle"
    /\ db_path = NoPath
    /\ opened = {}
    /\ response = NoResponse
    /\ hist = NoHist

\* String series reads of one run store: every content of its string tables
\* up to MaxStep, every kind of store, every query.
TheRun == File(<<"data", "p", "runs">>, "r1", ".sqlite")

AllPoints == {Row(path, step) : path \in SeriesPaths, step \in 0..MaxStep}

InitSeries ==
    /\ fs = {TheRun}
    /\ \E kind \in Kinds, points \in SUBSET AllPoints :
          /\ kind \in {"no_ss", "empty", "corrupt"} => points = {}
          /\ db = (TheRun :> Store(kind, [run_name |-> "r1"], points, {}, <<>>, 1))
    /\ Idle

QInts == {QAbsent} \cup {QInt(n) : n \in (0 - 1)..MaxCount}

SeriesRequests ==
    {[segs |-> <<"api", "runs", "p", "r1", "string_series">>,
      query |-> Query(path, limit, offset, tail, <<>>)] :
        path \in {None, "nope"} \cup SeriesPaths,
        limit \in QInts \cup {QJunk}, offset \in QInts, tail \in QInts}

NextSeries == (\E req \in SeriesRequests : Receive(req)) \/ Serve \/ Finish

SpecSeries == InitSeries /\ [][NextSeries]_vars

\* Routing and resolution: run stores inside and outside the root, requests
\* /api/runs/<project segments>/<run>/<op> with up to MaxProject raw project
\* segments, and an external process that removes files at any time.
InsideRun == File(<<"data", "p", "runs">>, "r1", ".sqlite")
NestedRun == File(<<"data", "p", "other", "runs">>, "r1", ".sqlite")
OutsideRun == File(<<"other", "runs">>, "r1", ".sqlite")
RouteFiles == {InsideRun, NestedRun, OutsideRun}

PlainStore == Store("ok", [run_name |-> "r1"], {}, {}, <<>>, 1)

InitRoute ==
    /\ fs \in SUBSET RouteFiles
    /\ db = [f \in RouteFiles |-> PlainStore]
    /\ Idle

ProjectSegs == {"p", "other", "..", "", "..%2Fother", "a%0Ab"}
RunSegs == {"r1", "r2", ""}
OpSegs == {"configs", "metrics", "metric-paths", "string_series", "metrics%0A", "runs"}

RouteRequests ==
    {[segs |-> <<"api", "runs">> \o project \o <<run, op>>, query |-> NoQuery] :
        project \in SeqsUpTo(ProjectSegs, MaxProject), run \in RunSegs, op \in OpSegs}
    \cup {[segs |-> <<"api", word>>, query |-> NoQuery] : word \in {"projects", "runs", "p"}}

NextRoute ==
    \/ \E req \in RouteRequests : Receive(req)
    \/ Serve
    \/ Finish
    \/ \E f \in RouteFiles : RemoveFile(f)

SpecRoute == InitRoute /\ [][NextRoute]_vars

\* Scans of runs: up to MaxFiles run stores in a root, each of any kind and
\* with any created_at (absent, NULL, empty, or a timestamp up to MaxStamp),
\* and GET /api/runs with and without a project filter.
ScanFiles ==
    {File(<<"data", "p", "runs">>, "r1", ".sqlite"),
     File(<<"data", "p", "runs">>, "r2", ".sqlite"),
     File(<<"data", "p", "other", "runs">>, "r1", ".sqlite"),
     File(<<"data", "runs">>, "r1", ".sqlite")}

\* An optional text: <<>> when the key is absent, <<c>> when its value is c.
Stamps == {<<>>} \cup {<<c>> : c \in {NoText, EmptyText} \cup 1..MaxStamp}

Meta(created, name) ==
    [k \in (IF created = <<>> THEN {} ELSE {"created_at"})
              \cup (IF name = <<>> THEN {} ELSE {"run_name"}) |->
        IF k = "created_at" THEN created[1] ELSE name[1]]

ScanStores ==
    {Store("ok", Meta(c, n), {}, {}, <<>>, 1) : c \in Stamps, n \in {<<>>, <<"r2">>}}
    \cup {Store("no_ss", Meta(c, <<>>), {}, {}, <<>>, 1) : c \in Stamps}
    \cup {Store(k, Meta(<<>>, <<>>), {}, {}, <<>>, 1) :
             k \in {"empty", "locked", "corrupt", "unopenable"}}

InitScan ==
    /\ fs \in SubsetsUpTo(ScanFiles, MaxFiles)
    /\ \E st \in [fs -> ScanStores] :
          db = [f \in ScanFiles |-> IF f \in fs THEN st[f] ELSE PlainStore]
    /\ Idle

ScanRequests ==
    {[segs |-> <<"api", "runs">>, query |-> Query(None, QAbsent, QAbsent, QAbsent, project)] :
        project \in {<<>>, <<"p">>, <<"p", "other">>}}

NextScan == (\E req \in ScanRequests : Receive(req)) \/ Finish

SpecScan == InitScan /\ [][NextScan]_vars

\* Scans of projects: up to MaxFiles files in a tree of directories nested up
\* to MaxDepth deep, run stores and files the glob does not match, and
\* GET /api/projects.
TreeDirs == SeqsUpTo({"p", "other"}, MaxDepth)

TreeFiles ==
    {File(ProjectsDir \o d \o <<"runs">>, stem, ".sqlite") : d \in TreeDirs, stem \in {"r1", "r2"}}
    \cup {File(<<"data", "p", "runs">>, "r1", ".txt"),
          File(<<"data", "p">>, "r1", ".sqlite"),
          File(<<"other", "runs">>, "r1", ".sqlite"),
          File(<<"data", "p", "runs", "other">>, "r1", ".sqlite"),
          File(<<"data", "p", "runs", "runs">>, "r1", ".sqlite")}

InitProjects ==
    /\ fs \in SubsetsUpTo(TreeFiles, MaxFiles)
    /\ \E mtime \in [fs -> {1, MaxStamp}] :
          db = [f \in TreeFiles |->
                  IF f \in fs THEN Store("ok", Meta(<<>>, <<>>), {}, {}, <<>>, mtime[f])
                  ELSE PlainStore]
    /\ Idle

ProjectsRequest == [segs |-> <<"api", "projects">>, query |-> NoQuery]

NextProjects == Receive(ProjectsRequest) \/ Finish

SpecProjects == InitProjects /\ [][NextProjects]_vars

\* Responses with result trees: one run store whose configs hold a tree of
\* nested mappings and sequences (sequences up to MaxLen long) over finite
\* and non-finite floats, integers, strings and null, or whose metric points
\* hold finite and non-finite values.
Float(x) == [t |-> "float", v |-> x]

Leaves ==
    {Float("nan"), Float("inf"), Float("-inf"), Float("1.5"),
     [t |-> "int", v |-> 1], Str("NaN"), PyNone}

ListsOf(T) == {List(l) : l \in SeqsUpTo(T, MaxLen)}
DictsOf(T) == UNION {{Dict(d) : d \in [K -> T]} : K \in SUBSET {"a", "b"}}

Trees1 == Leaves \cup ListsOf(Leaves) \cup DictsOf(Leaves)
Trees2 ==
    Trees1 \cup {List(<<t>>) : t \in Trees1} \cup {Dict([k \in {"a"} |-> t]) : t \in Trees1}

YValues == {"nan", "inf", "-inf", "1.5"}

MetricRows ==
    {{[path |-> "loss", step |-> n, y |-> ys[n]] : n \in N} :
        ys \in [0..MaxStep -> YValues], N \in SUBSET (0..MaxStep)}

InitSanitize ==
    /\ fs = {TheRun}
    /\ \/ \E tree \in Trees2 :
             db = (TheRun :> Store("ok", [run_name |-> "r1"], {}, {},
                                   [k \in {"cfg"} |-> tree], 1))
       \/ \E metrics \in MetricRows :
             db = (TheRun :> Store("ok", [run_name |-> "r1"], {}, metrics, <<>>, 1))
    /\ Idle

SanitizeRequests ==
    {[segs |-> <<"api", "runs", "p", "r1", op>>,
      query |-> Query(path, QAbsent, QAbsent, QAbsent, <<>>)] :
        op \in {"configs", "metrics"}, path \in {None, "loss"}}

NextSanitize == (\E req \in SanitizeRequests : Receive(req)) \/ Serve \/ Finish

SpecSanitize == InitSanitize /\ [][NextSanitize]_vars

\* ------------------------------------------------- string series claims
\* The request in hand, once it is answered.
Done == pc = "done"
Op == Route(DecodePath(request.segs)).op
StringSeriesDone == Done /\ Op = "string_series"

Given(q) == q.given = "numeral"
NoJunk == \A q \in {request.query.limit, request.query.offset, request.query.tail} :
              q.given # "text"

\* The store the request reads, and the points the claims call its scope.
ReadStore == db[TheRun]
Named == request.query.path # None
ClaimScope ==
    IF Named THEN {r \in ReadStore.points : r.path = request.query.path}
    ELSE ReadStore.points

\* Ascending order of the claims: by step within a named series, by
\* (path, step) otherwise.
Precedes(a, b) ==
    IF Named THEN a.step < b.step
    ELSE \/ SeriesRank(a.path) < SeriesRank(b.path)
         \/ a.path = b.path /\ a.step < b.step

\* The position (from 0) of a point in the full ordered result of the scope.
Position(r) == Cardinality({q \in ClaimScope : Precedes(q, r)})

\* The points and the total of a 200 response.
SentPoints ==
    LET l == response.body.v.string_series.v
    IN  [i \in DOMAIN l |-> Row(l[i].v.path.v, l[i].v.step.v)]
SentTotal == response.body.v.total.v

Ascending(seq) == \A i, j \in DOMAIN seq : i < j => Precedes(seq[i], seq[j])

Min(a, b) == IF a < b THEN a ELSE b

\* C1: with tail=N, N >= 0, a read of a store whose statements succeed returns
\* exactly min(N, total) points, ascending, and they are the last min(N, total)
\* points of the full ordered result of the scope, whatever limit and offset are.
C1_TailIsSuffix ==
    (/\ StringSeriesDone
     /\ NoJunk
     /\ Given(request.query.tail)
     /\ request.query.tail.n >= 0
     /\ ReadStore.kind = "ok")
    => /\ response.code = 200
       /\ LET k == Min(request.query.tail.n, Cardinality(ClaimScope))
          IN  /\ Len(SentPoints) = k
              /\ Ascending(SentPoints)
              /\ Range(SentPoints) =
                    {r \in ClaimScope : Position(r) >= Cardinality(ClaimScope) - k}

\* C2: with limit=L >= 0, offset=O >= 0 and no tail, what the read returns is
\* the slice [O, O+L) of the full ordered result of the scope; and the total
\* it returns is the number of points of the scope, whatever limit, offset
\* and tail are.
C2_PageIsSlice ==
    (StringSeriesDone /\ NoJunk /\ response.code = 200)
    => /\ SentTotal = Cardinality(ClaimScope)
       /\ (/\ Given(request.query.limit) /\ request.query.limit.n >= 0
           /\ ~Given(request.query.tail)
           /\ Given(request.query.offset) => request.query.offset.n >= 0)
          => LET O == IF Given(request.query.offset) THEN request.query.offset.n ELSE 0
                 L == request.query.limit.n
             IN  /\ Ascending(SentPoints)
                 /\ Range(SentPoints) =
                       {r \in ClaimScope : Position(r) >= O /\ Position(r) < O + L}

\* The statement of C2 for the stores whose statements all succeed.
PageIsSliceWhenReadable == ReadStore.kind = "ok" => C2_PageIsSlice

\* C6: only the absence of the string tables gives the empty result; a read
\* that fails for another reason (a lock that outlasts busy_timeout, a
\* malformed schema, a corrupt or unopenable file) is answered 500 with the
\* failure's message.
C6_OnlyAbsenceDegrades ==
    (StringSeriesDone /\ NoJunk)
    => /\ ReadStore.kind \in {"no_ss", "empty"}
            => response.code = 200 /\ SentPoints = <<>> /\ SentTotal = 0
       /\ ReadStore.kind \in {"malformed", "locked", "corrupt", "unopenable"}
            => response.code = 500 /\ response.body.v.error.v.text # ""

\* -------------------------------------------------------- route claims
RunOps == {"configs", "metrics", "metric-paths", "string_series"}

\* The decoded path of the request in hand and what the router made of it.
ReqSegs == DecodePath(request.segs)
ReqRoute == Route(ReqSegs)
RunScoped == ReqRoute.op \in RunOps
ReqPath == ResolvePath(ReqRoute.project, ReqRoute.run)

\* C3: whatever the project and run segments are, a store that is opened
\* lies under the root directory.
C3_OpenedUnderRoot == \A f \in opened : UnderRoot(f)

\* A path /api/runs/<s1>/.../<sn>/<run>/<op>: n >= 1, every segment holds a
\* character, op is one of the four operations.
HasForm(segs) ==
    /\ Len(segs) >= 5
    /\ segs[1] = "api"
    /\ segs[2] = "runs"
    /\ segs[Len(segs)] \in RunOps
    /\ \A i \in 3..(Len(segs) - 1) : segs[i] # ""

BodyKey(op) == IF op = "metric-paths" THEN "paths" ELSE op

NotFoundSent == response.code = 404 /\ response.body.v.error.v = Message("Not found")

\* What the answer shows of the route taken for a path of the form: the
\* operation's body on 200, the captured project and run on 404.
RoutedAs(op, project, run) ==
    /\ ReqRoute = [op |-> op, project |-> project, run |-> run]
    /\ response.code = 200 => BodyKey(op) \in DOMAIN response.body.v
    /\ response.code = 404 => response.body.v.error.v = NotFoundRun(project, run)

\* C7: a path /api/runs/<s1>/.../<sn>/<run>/<op> is routed to op with
\* project s1/.../sn and run the segment before op; a path that matches no
\* pattern is answered 404 "Not found".
C7_Routing ==
    Done =>
        /\ HasForm(ReqSegs) =>
              RoutedAs(ReqSegs[Len(ReqSegs)],
                       SubSeq(ReqSegs, 3, Len(ReqSegs) - 2),
                       ReqSegs[Len(ReqSegs) - 1])
        /\ ReqRoute.op = "none" => NotFoundSent

\* The statement of C7 for the paths whose project holds no line feed.
RoutingWithoutLineFeed ==
    (\A i \in 3..(Len(ReqSegs) - 2) : ReqSegs[i] \notin LFSegs) => C7_Routing

\* The 404 of a run that is not there: the message names the project and
\* the run, no store is opened, the body holds the error alone.
RunNotFoundSent ==
    /\ response.code = 404
    /\ response.body.v.error.v = NotFoundRun(ReqRoute.project, ReqRoute.run)
    /\ DOMAIN response.body.v = {"error"}
    /\ opened = {}

\* The 500 of a store that could not be opened.
OpenFailedSent ==
    /\ response.code = 500
    /\ response.body.v.error.v = Message("unable to open database file")
    /\ DOMAIN response.body.v = {"error"}
    /\ opened = {}

\* C8: a run-scoped GET whose store file is not there when the handler comes
\* to it (never there, or removed while the request is handled) is answered
\* with the 404 of a run that is not there.
C8_MissingIs404 ==
    (Done /\ RunScoped /\ ~Exists(ReqPath, hist.open)) => RunNotFoundSent

\* C8, the part that holds: a store file that is not there when the handler
\* looks it up is answered with that 404; one that is removed after the
\* lookup and before the open is answered 500 with the open's message, no
\* store opened and no data sent.
C8_MissingAtLookupIs404 ==
    (Done /\ RunScoped) =>
        /\ ~Exists(ReqPath, hist.lookup) => RunNotFoundSent
        /\ (Exists(ReqPath, hist.lookup) /\ ~Exists(ReqPath, hist.open)) => OpenFailedSent

\* A run-scoped request for a store that was not there at the lookup,
\* answered with the 404.
C8_Witness == Done /\ RunScoped /\ ~Exists(ReqPath, hist.lookup) /\ RunNotFoundSent

\* A run-scoped request whose store was removed between the lookup and the
\* open.
C8_RemovedBeforeOpen ==
    Done /\ RunScoped /\ Exists(ReqPath, hist.lookup) /\ ~Exists(ReqPath, hist.open)

\* ---------------------------------------------------------- scan claims
\* The runs and the projects of a 200 response.
SentRuns == response.body.v.runs.v
SentProjects == response.body.v.projects.v

\* A store whose run_meta can be read: it can be opened, is a database and
\* is not locked.
Readable(f) == db[f].kind \in {"ok", "no_ss", "malformed"}

\* The files the request's project filter lets through.
Listed(f) == request.query.project = <<>> \/ project_name(f) = request.query.project

\* What identifies a file's entry in the list, and an entry's own identity.
RunKey(f) == [project |-> project_name(f), run_id |-> Get(db[f].meta, "run_name", f.stem)]
EntryKey(e) == [project |-> e.v.project.v, run_id |-> e.v.run_id.v]

\* C4: GET /api/runs is answered 200 and lists exactly one entry per readable
\* run store (of the project asked for) and none for the others, whichever
\* stores cannot be opened or read.
C4_ScanSkipsUnreadable ==
    (Done /\ Op = "runs") =>
        /\ response.code = 200
        /\ Len(SentRuns) = Cardinality({f \in Glob(fs) : Readable(f) /\ Listed(f)})
        /\ \A g \in Glob(fs) :
              Cardinality({i \in DOMAIN SentRuns : EntryKey(SentRuns[i]) = RunKey(g)})
                = Cardinality({f \in Glob(fs) :
                                 Readable(f) /\ Listed(f) /\ RunKey(f) = RunKey(g)})

\* A scan that met an unreadable store before a readable one and listed the
\* readable one.
C4_Witness ==
    /\ Done /\ Op = "runs" /\ response.code = 200
    /\ \E f, g \in Glob(fs) :
          /\ ~Readable(f) /\ Readable(g) /\ Listed(g)
          /\ LexLess(PathKey(f), PathKey(g))
          /\ \E i \in DOMAIN SentRuns : EntryKey(SentRuns[i]) = RunKey(g)

\* An entry whose created_at is there: neither null nor the empty text.
HasStamp(e) == e.v.created_at.t = "str" /\ e.v.created_at.v # EmptyText

\* C10: the runs are listed by created_at descending, and a run without a
\* created_at comes after every run that has one.
C10_CreatedDescMissingLast ==
    (Done /\ Op = "runs" /\ response.code = 200) =>
        \A i, j \in DOMAIN SentRuns :
            (i < j /\ HasStamp(SentRuns[j])) =>
                /\ HasStamp(SentRuns[i])
                /\ SentRuns[i].v.created_at.v >= SentRuns[j].v.created_at.v

\* A list that the sort had to reorder: the first file of the scan has no
\* created_at, a later one has the older of two timestamps.
C10_Witness ==
    /\ Done /\ Op = "runs" /\ response.code = 200
    /\ Len(SentRuns) >= 2
    /\ HasStamp(SentRuns[1])
    /\ ~HasStamp(SentRuns[Len(SentRuns)])
    /\ \E f, g \in Glob(fs) :
          /\ Readable(f) /\ Readable(g)
          /\ LexLess(PathKey(f), PathKey(g))
          /\ Get(db[f].meta, "created_at", NoText) \in {NoText, EmptyText}
          /\ Get(db[g].meta, "created_at", NoText) >= 1

\* The directories that hold a runs/<name>.sqlite file, at or under the root.
ProjectDirs ==
    {d \in Dirs(fs) :
        /\ IsPrefix(ProjectsDir, d)
        /\ \E f \in fs : f.dir = Append(d, "runs") /\ f.suffix = ".sqlite"}

RunsOf(d) == {f \in fs : f.dir = Append(d, "runs") /\ f.suffix = ".sqlite"}

\* A directory's path relative to the root; the root itself is ".".
RelativeName(d) ==
    IF d = ProjectsDir THEN <<".">> ELSE SubSeq(d, Len(ProjectsDir) + 1, Len(d))

RECURSIVE SumCounts(_)
SumCounts(ps) == IF ps = <<>> THEN 0 ELSE Head(ps).v.run_count.v + SumCounts(Tail(ps))

\* C5: GET /api/projects lists exactly one project per directory that holds
\* a runs/<name>.sqlite file, named by the directory's path relative to the
\* root, with the number of such files as its run_count; the counts add up
\* to the number of run stores found, and no store is opened.
C5_ProjectCounts ==
    (Done /\ Op = "projects") =>
        /\ response.code = 200
        /\ Len(SentProjects) = Cardinality(ProjectDirs)
        /\ \A d \in ProjectDirs :
              \E i \in DOMAIN SentProjects :
                  /\ SentProjects[i].v.name.v = RelativeName(d)
                  /\ SentProjects[i].v.run_count.v = Cardinality(RunsOf(d))
        /\ SumCounts(SentProjects) = Cardinality(UNION {RunsOf(d) : d \in ProjectDirs})
        /\ opened = {}

\* A project nested two directories deep, listed beside a file that the
\* glob does not match.
C5_Witness ==
    /\ Done /\ Op = "projects" /\ response.code = 200
    /\ Len(SentProjects) = 1
    /\ \E d \in ProjectDirs : Len(d) >= Len(ProjectsDir) + 2
    /\ \E f \in fs : f \notin UNION {RunsOf(d) : d \in ProjectDirs}

\* ----------------------------------------------------- sanitizer claim
\* out is tree with every non-finite float replaced by its name and nothing
\* else changed.
RECURSIVE SanitizedAs(_, _)
SanitizedAs(tree, out) ==
    CASE tree.t = "float" /\ tree.v = "nan" -> out = [t |-> "str", v |-> "NaN"]
      [] tree.t = "float" /\ tree.v = "inf" -> out = [t |-> "str", v |-> "Infinity"]
      [] tree.t = "float" /\ tree.v = "-inf" -> out = [t |-> "str", v |-> "-Infinity"]
      [] tree.t = "dict" ->
            /\ out.t = "dict"
            /\ DOMAIN out.v = DOMAIN tree.v
            /\ \A k \in DOMAIN tree.v : SanitizedAs(tree.v[k], out.v[k])
      [] tree.t = "list" ->
            /\ out.t = "list"
            /\ Len(out.v) = Len(tree.v)
            /\ \A i \in DOMAIN tree.v : SanitizedAs(tree.v[i], out.v[i])
      [] OTHER -> out = tree

\* No non-finite float anywhere in the tree.
RECURSIVE Finite(_)
Finite(tree) ==
    CASE tree.t = "float" -> tree.v \notin {"nan", "inf", "-inf"}
      [] tree.t = "dict" -> \A k \in DOMAIN tree.v : Finite(tree.v[k])
      [] tree.t = "list" -> \A i \in DOMAIN tree.v : Finite(tree.v[i])
      [] OTHER -> TRUE

\* The metric point of the store that a sent point stands for.
SentMetrics == response.body.v.metrics.v
RowAt(step) == CHOOSE m \in ReadStore.metrics : m.step = step

\* C9: the body of a 200 response holds no non-finite float; the configs
\* sent are the store's configs, and the metric values sent the store's
\* values, with NaN, +Infinity and -Infinity replaced by "NaN", "Infinity"
\* and "-Infinity" where they stood and everything else as it was.
C9_Sanitized ==
    (Done /\ response.code = 200) =>
        /\ Finite(response.body)
        /\ Op = "configs" =>
              SanitizedAs([t |-> "dict", v |-> ReadStore.configs], response.body.v.configs)
        /\ Op = "metrics" =>
              /\ Len(SentMetrics) = Cardinality(ReadStore.metrics)
              /\ \A i \in DOMAIN SentMetrics :
                    SanitizedAs([t |-> "float", v |-> RowAt(SentMetrics[i].v.step.v).y],
                                SentMetrics[i].v.value)

\* A NaN inside a mapping inside a sequence of the configs, sent as "NaN".
C9_Witness ==
    /\ Done /\ Op = "configs" /\ response.code = 200
    /\ "cfg" \in DOMAIN ReadStore.configs
    /\ ReadStore.configs.cfg = List(<<Dict([k \in {"a"} |-> Float("nan")])>>)
    /\ response.body.v.configs.v.cfg = List(<<Dict([k \in {"a"} |-> Str("NaN")])>>)

\* ------------------------------------------------------ fetch-back claim
\* The route a client's GET /api/runs/{project}/{run_id}/metrics takes for a
\* listed entry, and the store path the handler resolves for it.
FetchRoute(e) ==
    Route(DecodePath(<<"api", "runs">> \o e.v.project.v \o <<e.v.run_id.v, "metrics">>))

FetchPath(e) == _resolve_run_db(fs, FetchRoute(e).project, FetchRoute(e).run)

\* The files an entry of the list may have come from.
SourcesOf(e) == {f \in Glob(fs) : Readable(f) /\ RunKey(f) = EntryKey(e)}

\* The entry resolves to a store, and that store is one the entry came from.
FetchesBack(e) ==
    /\ FetchRoute(e).op = "metrics"
    /\ FetchPath(e) # NoPath
    /\ RealFile(FetchPath(e), fs) \in SourcesOf(e)

\* C11: every run listed by GET /api/runs can be fetched back: while its
\* file exists, /api/runs/{project}/{run_id}/... resolves to the store the
\* entry came from, also when the stored run_name is not the file's stem.
C11_ListedRunsFetchBack ==
    (Done /\ Op = "runs" /\ response.code = 200) =>
        \A i \in DOMAIN SentRuns : FetchesBack(SentRuns[i])

\* The statement of C11 for the stores whose run_name, if any, is the
\* file's stem.
FetchBackWhenNamedAsFile ==
    (\A f \in Glob(fs) : Get(db[f].meta, "run_name", f.stem) = f.stem)
        => C11_ListedRunsFetchBack

\* A list with an entry whose run_name is the file's stem, fetched back.
FetchBackReached ==
    /\ Done /\ Op = "runs" /\ response.code = 200
    /\ Len(SentRuns) >= 1
    /\ \A f \in Glob(fs) : Get(db[f].meta, "run_name", f.stem) = f.stem
    /\ \E i \in DOMAIN SentRuns : FetchesBack(SentRuns[i])

====
